---- MODULE Spec2Model ----
(***************************************************************************)
(* Campus Resource Share (src/app.py): a Streamlit script that is re-run   *)
(* from top to bottom for every user interaction of every browser session. *)
(* The model follows one script run per session through its blocking       *)
(* calls to the identity provider, the blob store, the document store and  *)
(* the language model; runs of different sessions interleave between       *)
(* store operations.  Texts are tuples of one-character strings so that    *)
(* lower(), the substring test and split('@') are computed, not assumed.   *)
(***************************************************************************)
EXTENDS Naturals, Sequences, FiniteSets

VARIABLES user, pc, run, calls, ui, resources, idp, blobs, shown

vars == <<user, pc, run, calls, ui, resources, idp, blobs, shown>>

\* ------------------------------------------------------------------ bounds
\* Largest number of documents the collection "resources" holds in the model.
MaxDocs == 2

Sessions == {"s1", "s2"}

\* ------------------------------------------------------------------- texts
UpperChars == <<"A","B","C","D","E","F","G","H","I","J","K","L","M",
                "N","O","P","Q","R","S","T","U","V","W","X","Y","Z">>
LowerChars == <<"a","b","c","d","e","f","g","h","i","j","k","l","m",
                "n","o","p","q","r","s","t","u","v","w","x","y","z">>

\* str.lower() on one character.
LowerChar(c) ==
    IF \E i \in 1..Len(UpperChars) : UpperChars[i] = c
    THEN LowerChars[CHOOSE i \in 1..Len(UpperChars) : UpperChars[i] = c]
    ELSE c

\* str.lower()
Lower(t) == [i \in 1..Len(t) |-> LowerChar(t[i])]

\* Python's  needle in hay  on strings (the empty needle is in every string).
Contains(needle, hay) ==
    \E i \in 0..Len(hay) :
        /\ i + Len(needle) <= Len(hay)
        /\ SubSeq(hay, i + 1, i + Len(needle)) = needle

\* email.split('@')[0]
LocalPart(e) ==
    IF \E i \in 1..Len(e) : e[i] = "@"
    THEN LET k == CHOOSE i \in 1..Len(e) :
                      e[i] = "@" /\ \A j \in 1..(i - 1) : e[j] # "@"
         IN SubSeq(e, 1, k - 1)
    ELSE e

Rejected == <<"r","e","j","e","c","t","e","d">>

\* The fixed parts of the three result strings, each kept as one element.
RejectedPrefix == <<"[X] Rejected: ">>
ApprovedPrefix == <<"[OK] Approved!\n\n**AI Recommendations:**\n">>
AgentErrorPrefix == <<"[!] Agent error: ">>

\* ------------------------------------------------------- language model
\* What one stage call of the language model can give back: text, or an
\* exception whose str() is the text.
Cleaned == <<"m","l"," ","b","o","o","k">>
Recs == <<"1",".","x"," ","2",".","y"," ","3",".","z">>
Timeout == <<"t","i","m","e","o","u","t">>

ScreenTexts ==
    { <<"R","E","J","E","C","T","E","D"," ","-"," ","p","h","o","n","e">>,
      <<"A","P","P","R","O","V","E","D">>,
      <<"o","k",","," ","n","o","t"," ","R","e","j","e","c","t","e","d">>,
      <<"r","e","j","e","c","t">>,
      <<>> }

Ok(t) == [ok |-> TRUE, text |-> t]
Fail(t) == [ok |-> FALSE, text |-> t]

\* One stubbed model: the answer each stage gives when (and if) it is called.
LLMs ==
    [normalize : {Ok(Cleaned), Fail(Timeout)},
     screen    : {Ok(t) : t \in ScreenTexts} \cup {Fail(Timeout)},
     recommend : {Ok(Recs), Fail(Timeout)}]

\* One entry of the log of calls to external services made by a script run.
Call(svc, op, arg, ok, ret) ==
    [svc |-> svc, op |-> op, arg |-> arg, ok |-> ok, ret |-> ret]

\* chain.run(arg) of the stage's LLMChain
Invoke(stage, arg, resp) == Call("llm", stage, arg, resp.ok, resp.text)

\* str(resource_data): the repr of the dict, its literal parts as elements.
StrOf(d) ==
    <<"{'title': '">> \o d.title \o <<"', 'description': '">> \o d.description
    \o <<"', 'category': '">> \o d.category \o <<"', 'owner': '">> \o d.owner
    \o <<"', 'file_url': '">> \o d.file_url
    \o <<"', 'status': '">> \o <<d.status>> \o <<"', 'timestamp': Sentinel}">>

NoOutcome == [state |-> "none", text |-> <<>>, calls |-> <<>>]

\* except Exception as e: return f"... Agent error: {str(e)}"
AgentError(e, cs) ==
    [state |-> "error", text |-> AgentErrorPrefix \o e, calls |-> cs]

IsRejected_CaseSensitive(safety) == Contains(Rejected, safety)

\* "rejected" in safety.lower()
IsRejected(safety) == Contains(Rejected, Lower(safety))

RecommendArg_Raw(resource_data, cleaned) == StrOf(resource_data)

\* the argument of gemini_agent.run
RecommendArg(resource_data, cleaned) == cleaned


\* Variants of the pipeline with a defect, used to show that the properties
\* below depend on the control flow of process_resource_with_agents.
ProcessResourceWithAgents_Fallback(resource_data, llm) ==
    LET c1 == Invoke("normalize", StrOf(resource_data), llm.normalize)
        cleaned == IF c1.ok THEN c1.ret ELSE StrOf(resource_data)
        c2 == Invoke("screen", cleaned, llm.screen) IN
    IF ~c2.ok THEN AgentError(c2.ret, <<c1, c2>>)
    ELSE IF IsRejected(c2.ret)
    THEN [state |-> "rejected", text |-> RejectedPrefix \o c2.ret,
          calls |-> <<c1, c2>>]
    ELSE
    LET c3 == Invoke("recommend", cleaned, llm.recommend) IN
    IF ~c3.ok THEN AgentError(c3.ret, <<c1, c2, c3>>)
    ELSE [state |-> "recommended", text |-> ApprovedPrefix \o c3.ret,
          calls |-> <<c1, c2, c3>>]

ProcessResourceWithAgents_RecommendFirst(resource_data, llm) ==
    LET c1 == Invoke("normalize", StrOf(resource_data), llm.normalize) IN
    IF ~c1.ok THEN AgentError(c1.ret, <<c1>>)
    ELSE
    LET cleaned == c1.ret
        c3 == Invoke("recommend", cleaned, llm.recommend) IN
    IF ~c3.ok THEN AgentError(c3.ret, <<c1, c3>>)
    ELSE
    LET c2 == Invoke("screen", cleaned, llm.screen) IN
    IF ~c2.ok THEN AgentError(c2.ret, <<c1, c3, c2>>)
    ELSE IF IsRejected(c2.ret)
    THEN [state |-> "rejected", text |-> RejectedPrefix \o c2.ret,
          calls |-> <<c1, c3, c2>>]
    ELSE [state |-> "recommended", text |-> ApprovedPrefix \o c3.ret,
          calls |-> <<c1, c3, c2>>]

\* ---------------------------------------------------- moderation pipeline
\* process_resource_with_agents(resource_data), run against the stub llm.
\* The outcome names the return statement taken, the string returned and
\* the stage calls made, in order.
ProcessResourceWithAgents(resource_data, llm) ==
    LET c1 == Invoke("normalize", StrOf(resource_data), llm.normalize) IN
    IF ~c1.ok THEN AgentError(c1.ret, <<c1>>)
    ELSE
    LET cleaned == c1.ret
        c2 == Invoke("screen", cleaned, llm.screen) IN
    IF ~c2.ok THEN AgentError(c2.ret, <<c1, c2>>)
    ELSE
    LET safety == c2.ret IN
    IF IsRejected(safety)
    THEN [state |-> "rejected", text |-> RejectedPrefix \o safety,
          calls |-> <<c1, c2>>]
    ELSE
    LET c3 == Invoke("recommend", RecommendArg(resource_data, cleaned),
                     llm.recommend) IN
    IF ~c3.ok THEN AgentError(c3.ret, <<c1, c2, c3>>)
    ELSE [state |-> "recommended", text |-> ApprovedPrefix \o c3.ret,
          calls |-> <<c1, c2, c3>>]

\* ------------------------------------------------------------ form inputs
EmailA == <<"a","@","x">>
EmailB == <<"b","@","y">>
EmailBad == <<"b","a","d">>
Pw == <<"p","w">>

Books == <<"B","o","o","k","s">>
Notes == <<"N","o","t","e","s">>
LabEquipment == <<"L","a","b"," ","E","q","u","i","p","m","e","n","t">>
Other == <<"O","t","h","e","r">>
\* st.selectbox("Category*", [...])
Categories == {Books, Notes, LabEquipment, Other}

NoFile == [present |-> FALSE, name |-> <<>>]
File(n) == [present |-> TRUE, name |-> n]
Pdf == <<"a",".","p","d","f">>

Form(choice, email, password, title, description, category, file) ==
    [choice |-> choice, email |-> email, password |-> password,
     title |-> title, description |-> description, category |-> category,
     file |-> file]

EmptyForm == Form("", <<>>, <<>>, <<>>, <<>>, <<>>, NoFile)

\* What a user can put into the login / signup form.
LoginInputs ==
    { Form("Login",  EmailA,   Pw,   <<>>, <<>>, <<>>, NoFile),
      Form("Signup", EmailA,   Pw,   <<>>, <<>>, <<>>, NoFile),
      Form("Login",  EmailB,   Pw,   <<>>, <<>>, <<>>, NoFile),
      Form("Signup", EmailB,   Pw,   <<>>, <<>>, <<>>, NoFile),
      Form("Signup", EmailBad, Pw,   <<>>, <<>>, <<>>, NoFile),
      Form("Login",  <<>>,     Pw,   <<>>, <<>>, <<>>, NoFile),
      Form("Signup", EmailA,   <<>>, <<>>, <<>>, <<>>, NoFile) }

TitleML == <<"M","L">>
TitleDS == <<"D","S">>
DescOk == <<"o","k">>

\* What a user can put into the post form.
PostInputs ==
    { Form("", <<>>, <<>>, TitleML, DescOk, Books, NoFile),
      Form("", <<>>, <<>>, TitleDS, DescOk, Notes, NoFile),
      Form("", <<>>, <<>>, TitleML, DescOk, LabEquipment, File(Pdf)),
      Form("", <<>>, <<>>, <<>>,    DescOk, Books, NoFile),
      Form("", <<>>, <<>>, TitleML, <<>>,   Other, NoFile),
      Form("", <<>>, <<>>, <<>>,    <<>>,   Books, File(Pdf)) }

\* What a user can type into the search box.
SearchInputs == { <<>>, <<"D","S">> }

\* ------------------------------------------------------------------ state
NoUser == [in |-> FALSE, email |-> <<>>]
LoggedIn(e) == [in |-> TRUE, email |-> e]

EmptyData ==
    [title |-> <<>>, description |-> <<>>, category |-> <<>>, owner |-> <<>>,
     file_url |-> <<>>, status |-> "", timestamp |-> 0]

\* The locals of a script run.  query is the search box, whose value the
\* session keeps from one run to the next.
NoRun(q) ==
    [kind |-> "load", form |-> EmptyForm, data |-> EmptyData, docid |-> 0,
     click |-> 0, query |-> q, outcome |-> NoOutcome]

\* The state once every session has loaded the page on an empty project.
Init ==
    /\ user = [s \in Sessions |-> NoUser]
    /\ pc = [s \in Sessions |-> "done"]
    /\ run = [s \in Sessions |-> NoRun(<<>>)]
    /\ calls = [s \in Sessions |-> <<>>]
    /\ ui = [s \in Sessions |-> <<>>]
    /\ resources = <<>>
    /\ idp = {}
    /\ blobs = {}
    /\ shown = [s \in Sessions |-> {}]

\* A run is over (or was stopped by an exception): the page waits for input.
AtRest(s) == pc[s] \in {"done", "crashed"}


\* A new run of the script for session s, caused by one widget.
NewRun(s, kind, form) ==
    [NoRun(run[s].query) EXCEPT !.kind = kind, !.form = form]

\* ------------------------------------------------------ identity provider
\* auth.create_user(email=..., password=...)
CreateUser(email) ==
    IF ~Contains(<<"@">>, email) THEN Fail(<<"INVALID_EMAIL">>)
    ELSE IF email \in idp THEN Fail(<<"EMAIL_ALREADY_EXISTS">>)
    ELSE Ok(email)

\* auth.get_user_by_email(email)
GetUserByEmail(email) ==
    IF email \in idp THEN Ok(email) ELSE Fail(<<"USER_NOT_FOUND">>)

\* The except branch of the login form: the message for exception text e.
AuthErrorMessage(e) ==
    IF Contains(<<"EMAIL_ALREADY_EXISTS">>, e)
    THEN <<"Email already registered. Try logging in.">>
    ELSE IF Contains(<<"INVALID_EMAIL">>, e)
    THEN <<"Invalid email format.">>
    ELSE <<"Error: ">> \o e

\* not (not email or not password)
FilledLogin(f) == f.email # <<>> /\ f.password # <<>>

SessionAfterLookup_Signup(f, r) ==
    IF r.ok THEN LoggedIn(f.email) ELSE NoUser

\* st.session_state.user after the Submit handler whose provider call gave r
SessionAfterLookup(f, r) ==
    IF f.choice = "Login" /\ r.ok THEN LoggedIn(f.email) ELSE NoUser

\* if st.button("Submit"): the login / signup handler.  After a successful
\* login st.rerun() starts the script again, now with a session user.
LoginSubmit(s, forms) ==
    /\ AtRest(s)
    /\ ~user[s].in
    /\ \E f \in forms :
        /\ run' = [run EXCEPT ![s] = NewRun(s, "auth", f)]
        /\ pc' = [pc EXCEPT ![s] = "search"]
        /\ IF ~FilledLogin(f)
           THEN /\ ui' = [ui EXCEPT ![s] = << <<"Please fill both fields">> >>]
                /\ calls' = [calls EXCEPT ![s] = <<>>]
                /\ UNCHANGED <<user, idp>>
           ELSE LET op == IF f.choice = "Signup" THEN "create_user"
                                                 ELSE "get_user_by_email"
                    r == IF f.choice = "Signup" THEN CreateUser(f.email)
                                                ELSE GetUserByEmail(f.email)
                IN /\ calls' = [calls EXCEPT ![s] =
                                  <<Call("auth", op, f.email, r.ok, r.text)>>]
                   /\ idp' = IF f.choice = "Signup" /\ r.ok
                             THEN idp \cup {f.email} ELSE idp
                   /\ user' = [user EXCEPT ![s] = SessionAfterLookup(f, r)]
                   /\ ui' = [ui EXCEPT ![s] =
                               IF ~r.ok THEN <<AuthErrorMessage(r.text)>>
                               ELSE IF f.choice = "Signup"
                               THEN << <<"Account created successfully!">>,
                                       <<"Now log in with the same credentials.">> >>
                               ELSE << <<"Welcome back, ">> \o f.email >>]
    /\ UNCHANGED <<resources, blobs, shown>>

\* if st.button("Logout"): del st.session_state.user; st.rerun()
Logout(s) ==
    /\ AtRest(s)
    /\ user[s].in
    /\ user' = [user EXCEPT ![s] = NoUser]
    /\ run' = [run EXCEPT ![s] = NewRun(s, "logout", EmptyForm)]
    /\ pc' = [pc EXCEPT ![s] = "search"]
    /\ calls' = [calls EXCEPT ![s] = <<>>]
    /\ ui' = [ui EXCEPT ![s] = <<>>]
    /\ UNCHANGED <<resources, idp, blobs, shown>>

\* ---------------------------------------------------------- the post form
ValidPost_TitleOnly(f) == f.title # <<>>

\* not (not title or not description)
ValidPost(f) == f.title # <<>> /\ f.description # <<>>

\* resource_data = {...}; timestamp is the SERVER_TIMESTAMP sentinel (0)
\* until the store assigns it.
ResourceData(f, u, url) ==
    [title |-> f.title, description |-> f.description,
     category |-> f.category, owner |-> u.email,
     file_url |-> url, status |-> "available", timestamp |-> 0]

\* f"{st.session_state.user['email'].split('@')[0]}_{uploaded_file.name}"
BlobName(u, file) == LocalPart(u.email) \o <<"_">> \o file.name

\* db.collection("resources").add(doc): the store assigns id and timestamp.
StoreAdd(store, doc) ==
    Append(store, [doc EXCEPT !.timestamp = Len(store) + 1])

\* if submitted: the post handler up to db.collection("resources").add.
\* With a file attached the upload is followed by timedelta(days=365), a
\* name the script never imports: NameError ends the run there.
PostSubmit(s, forms) ==
    /\ AtRest(s)
    /\ user[s].in
    /\ \E f \in forms :
        /\ run' = [run EXCEPT ![s] =
                     IF ValidPost(f) /\ ~f.file.present
                     THEN [NewRun(s, "post", f) EXCEPT
                              !.data = ResourceData(f, user[s], <<>>),
                              !.docid = Len(resources) + 1]
                     ELSE NewRun(s, "post", f)]
        /\ IF ~ValidPost(f)
           THEN /\ ui' = [ui EXCEPT ![s] =
                            << <<"Title and description are required.">> >>]
                /\ calls' = [calls EXCEPT ![s] = <<>>]
                /\ pc' = [pc EXCEPT ![s] = "search"]
                /\ UNCHANGED <<resources, blobs, shown>>
           ELSE IF f.file.present
           THEN /\ blobs' = blobs \cup {BlobName(user[s], f.file)}
                /\ calls' = [calls EXCEPT ![s] =
                               <<Call("blob", "upload",
                                      BlobName(user[s], f.file), TRUE, <<>>)>>]
                /\ ui' = [ui EXCEPT ![s] =
                            << <<"NameError: name 'timedelta' is not defined">> >>]
                /\ pc' = [pc EXCEPT ![s] = "crashed"]
                /\ shown' = [shown EXCEPT ![s] = {}]
                /\ UNCHANGED resources
           ELSE /\ Len(resources) < MaxDocs
                /\ resources' =
                     StoreAdd(resources, ResourceData(f, user[s], <<>>))
                /\ calls' = [calls EXCEPT ![s] =
                               <<Call("db", "add", StrOf(ResourceData(f, user[s], <<>>)),
                                      TRUE, <<>>)>>]
                /\ ui' = [ui EXCEPT ![s] = <<>>]
                /\ pc' = [pc EXCEPT ![s] = "pipeline"]
                /\ UNCHANGED <<blobs, shown>>
    /\ UNCHANGED <<user, idp>>

StoreAfterPipeline_MarkRejected(store, id, out) ==
    IF out.state = "rejected"
    THEN [store EXCEPT ![id].status = "rejected"]
    ELSE store

\* The collection after process_resource_with_agents returned out for
\* document id: the function has no statement that writes to db.
StoreAfterPipeline(store, id, out) == store

\* ai_result = process_resource_with_agents(resource_data), then
\* st.success("Resource posted successfully!") and st.info(ai_result).
RunPipeline(s, llms) ==
    /\ pc[s] = "pipeline"
    /\ \E llm \in llms :
        LET out == ProcessResourceWithAgents(run[s].data, llm) IN
        /\ run' = [run EXCEPT ![s].outcome = out]
        /\ calls' = [calls EXCEPT ![s] = @ \o out.calls]
        /\ ui' = [ui EXCEPT ![s] =
                    << <<"Resource posted successfully!">>, out.text >>]
        /\ resources' = StoreAfterPipeline(resources, run[s].docid, out)
    /\ pc' = [pc EXCEPT ![s] = "search"]
    /\ UNCHANGED <<user, idp, blobs, shown>>

\* ------------------------------------------------------ search and request
AvailableIds_All(store) == DOMAIN store

\* .where("status", "==", "available").stream()
AvailableIds(store) == {i \in DOMAIN store : store[i].status = "available"}

\* f"{data['title']} {data['description']} {data['category']}".lower()
SearchText(d) ==
    Lower(d.title \o <<" ">> \o d.description \o <<" ">> \o d.category)

\* search_query.lower() in search_text or not search_query
Matches(q, d) == Contains(Lower(q), SearchText(d)) \/ q = <<>>

\* The closing st.info of the search section.
SearchInfo(found, q) ==
    IF ~found /\ q # <<>>
    THEN << <<"No resources found matching your search.">> >>
    ELSE IF q = <<>>
    THEN << <<"Tip: Use the search box above to filter resources.">> >>
    ELSE <<>>

\* Typing into the search box: a run in which no button is pressed.
SearchInput(s, queries) ==
    /\ AtRest(s)
    /\ \E q \in queries :
        /\ q # run[s].query
        /\ run' = [run EXCEPT ![s] = [NoRun(q) EXCEPT !.kind = "search"]]
    /\ pc' = [pc EXCEPT ![s] = "search"]
    /\ calls' = [calls EXCEPT ![s] = <<>>]
    /\ ui' = [ui EXCEPT ![s] = <<>>]
    /\ UNCHANGED <<user, resources, idp, blobs, shown>>

\* Pressing "Request this Resource" on a listing the page shows.
RequestClick(s) ==
    /\ AtRest(s)
    /\ \E id \in shown[s] :
        run' = [run EXCEPT ![s] =
                  [NewRun(s, "request", EmptyForm) EXCEPT !.click = id]]
    /\ pc' = [pc EXCEPT ![s] = "search"]
    /\ calls' = [calls EXCEPT ![s] = <<>>]
    /\ ui' = [ui EXCEPT ![s] = <<>>]
    /\ UNCHANGED <<user, resources, idp, blobs, shown>>

\* resources = db.collection("resources").where(...).stream() and the loop
\* that renders the matching listings.  The button whose key is the clicked
\* document reads True only if this run's query returned that document.
SearchQuery(s) ==
    /\ pc[s] = "search"
    /\ LET avail == AvailableIds(resources)
           rendered == {i \in avail : Matches(run[s].query, resources[i])}
       IN /\ calls' = [calls EXCEPT ![s] =
                         Append(@, Call("db", "query", <<"available">>, TRUE, <<>>))]
          /\ IF run[s].click \in rendered
             THEN /\ pc' = [pc EXCEPT ![s] = "update"]
                  /\ shown' = [shown EXCEPT ![s] = {}]
                  /\ UNCHANGED ui
             ELSE /\ pc' = [pc EXCEPT ![s] = "done"]
                  /\ shown' = [shown EXCEPT ![s] = rendered]
                  /\ ui' = [ui EXCEPT ![s] =
                              @ \o SearchInfo(rendered # {}, run[s].query)]
    /\ UNCHANGED <<user, run, resources, idp, blobs>>

StoreUpdate_Toggle(store, id) ==
    [store EXCEPT ![id].status =
        IF @ = "available" THEN "requested" ELSE "available"]

\* db.collection("resources").document(id).update({"status": "requested"})
StoreUpdate(store, id) == [store EXCEPT ![id].status = "requested"]

\* The body of  if st.button("Request this Resource", key=doc.id):  the
\* update, st.success and st.rerun(), which starts the script again.
RequestUpdate(s) ==
    /\ pc[s] = "update"
    /\ resources' = StoreUpdate(resources, run[s].click)
    /\ calls' = [calls EXCEPT ![s] =
                   Append(@, Call("db", "update", <<"requested">>, TRUE, <<>>))]
    /\ ui' = [ui EXCEPT ![s] = << <<"Request sent!">> >>]
    /\ run' = [run EXCEPT ![s].docid = run[s].click, ![s].click = 0]
    /\ pc' = [pc EXCEPT ![s] = "search"]
    /\ UNCHANGED <<user, idp, blobs, shown>>

\* The inputs the environment draws from: the forms users fill in, the
\* search texts they type and the answers of the stubbed language model.
AllInputs ==
    [logins |-> LoginInputs, posts |-> PostInputs,
     queries |-> SearchInputs, llms |-> LLMs]

\* One step of the script run of session s.
Step(s, in) ==
    \/ LoginSubmit(s, in.logins)
    \/ Logout(s)
    \/ PostSubmit(s, in.posts)
    \/ RunPipeline(s, in.llms)
    \/ SearchInput(s, in.queries)
    \/ RequestClick(s)
    \/ SearchQuery(s)
    \/ RequestUpdate(s)

\* One browser session using the application, with every input.
Next == Step("s1", AllInputs)

Spec == Init /\ [][Next]_vars

\* Two browser sessions whose script runs interleave between their calls to
\* the external services.  Both use the one account (searching and
\* requesting need no login) and post one complete form.
SharedInputs ==
    [logins |-> {Form("Signup", EmailA, Pw, <<>>, <<>>, <<>>, NoFile),
                 Form("Login",  EmailA, Pw, <<>>, <<>>, <<>>, NoFile)},
     posts |-> {Form("", <<>>, <<>>, TitleML, DescOk, Books, NoFile)},
     queries |-> SearchInputs,
     llms |-> {[normalize |-> Ok(Cleaned),
                screen |-> Ok(<<"A","P","P","R","O","V","E","D">>),
                recommend |-> Ok(Recs)]}]

NextShared == \E s \in Sessions : Step(s, SharedInputs)

SpecShared == Init /\ [][NextShared]_vars


\* ================================================================ properties
\* The token of the screening test, written out letter by letter with both
\* cases, and the test as the specification words it.
RejectedLetters ==
    << {"r","R"}, {"e","E"}, {"j","J"}, {"e","E"},
       {"c","C"}, {"t","T"}, {"e","E"}, {"d","D"} >>

HasRejectedToken(t) ==
    \E k \in 0..Len(t) :
        /\ k + Len(RejectedLetters) <= Len(t)
        /\ \A i \in 1..Len(RejectedLetters) : t[k + i] \in RejectedLetters[i]

\* The stage calls of the last pipeline run of session s.
StageCalls(s) == run[s].outcome.calls
PipelineRan(s) == run[s].outcome.state # "none"
StageCount(s, stage) ==
    Cardinality({i \in 1..Len(StageCalls(s)) : StageCalls(s)[i].op = stage})
NormalizedAndScreened(s) ==
    /\ PipelineRan(s)
    /\ Len(StageCalls(s)) >= 2
    /\ StageCalls(s)[1].op = "normalize" /\ StageCalls(s)[1].ok
    /\ StageCalls(s)[2].op = "screen" /\ StageCalls(s)[2].ok

\* C1: when normalizer and screener succeed and the screener's output
\* contains "rejected" in any letter case, the result is the rejection
\* message carrying the screener's output unchanged, and the recommendation
\* stage is not invoked.
C1_RejectionShortCircuits ==
    \A s \in Sessions :
        (NormalizedAndScreened(s) /\ HasRejectedToken(StageCalls(s)[2].ret))
        => /\ run[s].outcome.state = "rejected"
           /\ run[s].outcome.text = RejectedPrefix \o StageCalls(s)[2].ret
           /\ StageCount(s, "recommend") = 0
           /\ \A i \in 1..Len(calls[s]) : calls[s][i].op # "recommend"

\* A rejection decided on a mixed-case token in the middle of the text.
C1_Witness ==
    \E s \in Sessions :
        /\ run[s].outcome.state = "rejected"
        /\ StageCalls(s)[2].ret =
             <<"o","k",","," ","n","o","t"," ","R","e","j","e","c","t","e","d">>
        /\ pc[s] = "done"

\* C2: when normalizer and screener succeed and the screener's output does
\* not contain "rejected" in any letter case, the recommendation stage is
\* invoked exactly once, on the normalizer's output, and when it succeeds
\* the result is the approval message followed by its output verbatim.
C2_ApprovalRecommendsOnce ==
    \A s \in Sessions :
        (NormalizedAndScreened(s) /\ ~HasRejectedToken(StageCalls(s)[2].ret))
        => /\ StageCount(s, "recommend") = 1
           /\ Len(StageCalls(s)) = 3
           /\ StageCalls(s)[3].op = "recommend"
           /\ StageCalls(s)[3].arg = StageCalls(s)[1].ret
           /\ StageCalls(s)[3].ok =>
                /\ run[s].outcome.state = "recommended"
                /\ run[s].outcome.text = ApprovedPrefix \o StageCalls(s)[3].ret

\* An approval after a screener output that only comes close to the token.
C2_Witness ==
    \E s \in Sessions :
        /\ run[s].outcome.state = "recommended"
        /\ StageCalls(s)[2].ret = <<"r","e","j","e","c","t">>
        /\ run[s].outcome.text = ApprovedPrefix \o Recs

\* C3: a failed stage is the last stage called (nothing after a normalizer
\* failure, no recommender after a screener failure, no stage called twice),
\* and every failure gives the one error message carrying the error text.
C3_FailureStopsPipeline ==
    \A s \in Sessions :
        PipelineRan(s) =>
            \A i \in 1..Len(StageCalls(s)) :
                ~StageCalls(s)[i].ok =>
                    /\ i = Len(StageCalls(s))
                    /\ StageCalls(s)[1].op = "normalize"
                    /\ i >= 2 => StageCalls(s)[2].op = "screen"
                    /\ i >= 3 => StageCalls(s)[3].op = "recommend"
                    /\ i <= 3
                    /\ \A stage \in {"normalize", "screen", "recommend"} :
                           StageCount(s, stage) <= 1
                    /\ run[s].outcome.state = "error"
                    /\ run[s].outcome.text =
                           AgentErrorPrefix \o StageCalls(s)[i].ret
                    /\ ui[s][2] = run[s].outcome.text

\* The screener failed after a successful normalize.
C3_Witness ==
    \E s \in Sessions :
        /\ run[s].outcome.state = "error"
        /\ Len(StageCalls(s)) = 2
        /\ StageCalls(s)[1].ok
        /\ ~StageCalls(s)[2].ok

StageOrder == <<"normalize", "screen", "recommend">>

\* C7: every pipeline run ends in exactly one of rejected, recommended and
\* error with one result string, after calling the stages in the order
\* normalize, screen, recommend, each at most once and none skipped.
C7_OneTerminalStateInOrder ==
    \A s \in Sessions :
        PipelineRan(s) =>
            /\ run[s].outcome.state \in {"rejected", "recommended", "error"}
            /\ Len(StageCalls(s)) \in 1..Len(StageOrder)
            /\ \A i \in 1..Len(StageCalls(s)) :
                   /\ StageCalls(s)[i].op = StageOrder[i]
                   /\ i < Len(StageCalls(s)) => StageCalls(s)[i].ok
            /\ run[s].outcome.state = "rejected" =>
                   Len(StageCalls(s)) = 2 /\ StageCalls(s)[2].ok
            /\ run[s].outcome.state = "recommended" =>
                   Len(StageCalls(s)) = 3 /\ StageCalls(s)[3].ok
            /\ run[s].outcome.state = "error" =>
                   ~StageCalls(s)[Len(StageCalls(s))].ok
            /\ Len(ui[s]) >= 2 /\ ui[s][2] = run[s].outcome.text
            /\ Cardinality({i \in 1..Len(ui[s]) : ui[s][i] = run[s].outcome.text}) = 1

\* A run that went through all three stages, whose page is complete.
C7_Witness ==
    \E s \in Sessions :
        /\ run[s].outcome.state = "recommended"
        /\ Len(StageCalls(s)) = 3
        /\ pc[s] = "done"


\* The required fields of a post as the specification states them.
CompletePost(f) == Len(f.title) > 0 /\ Len(f.description) > 0
CompleteLogin(f) == Len(f.email) > 0 /\ Len(f.password) > 0

\* C4: every post submitted by a logged-in user with a title and a
\* description, with or without a file, has its listing in the store, added
\* by the run's first call and before any stage of the pipeline.
C4_EveryCompletePostIsStored ==
    \A s \in Sessions :
        (run[s].kind = "post" /\ CompletePost(run[s].form)) =>
            /\ run[s].docid \in DOMAIN resources
            /\ resources[run[s].docid].title = run[s].form.title
            /\ resources[run[s].docid].status \in {"available", "requested"}
            /\ Len(calls[s]) >= 1
            /\ calls[s][1].svc = "db" /\ calls[s][1].op = "add"

\* C5: a listing is created "available", the only change of a status is
\* available -> requested, and no listing is removed.
C5_StatusOnlyMovesForward ==
    [][ /\ Len(resources') >= Len(resources)
        /\ \A i \in DOMAIN resources' :
              IF i \in DOMAIN resources
              THEN \/ resources'[i].status = resources[i].status
                   \/ /\ resources[i].status = "available"
                      /\ resources'[i].status = "requested"
              ELSE resources'[i].status = "available"
        /\ \A i \in DOMAIN resources' :
              resources'[i].status \in {"available", "requested"} ]_vars

\* A listing is already requested while another run, which saw it
\* available, is about to update it again.
C5_Witness ==
    \E s \in Sessions :
        /\ pc[s] = "update"
        /\ resources[run[s].click].status = "requested"

\* C6 as stated: a run that shows a validation error has called no external
\* service at all.
C6_NoExternalCallOnValidationError ==
    \A s \in Sessions :
        ( /\ AtRest(s)
          /\ \/ run[s].kind = "post" /\ ~CompletePost(run[s].form)
             \/ run[s].kind = "auth" /\ ~CompleteLogin(run[s].form) )
        => calls[s] = <<>>

\* C6 amended: the step that handles an incomplete post or login form shows
\* the validation error, calls no service and changes neither the listings,
\* the accounts nor the blobs; the only external call of that run is the
\* query for the available listings that ends every script run.
C6_ValidationErrorOnlyReadsListings ==
    [][ \A s \in Sessions :
          ( \/ run'[s].kind = "post" /\ ~CompletePost(run'[s].form)
            \/ run'[s].kind = "auth" /\ ~CompleteLogin(run'[s].form) )
          => /\ \A i \in 1..Len(calls'[s]) :
                    calls'[s][i].svc = "db" /\ calls'[s][i].op = "query"
             /\ Len(calls'[s]) <= 1
             /\ Len(ui'[s]) >= 1
             /\ ui'[s][1] \in { <<"Title and description are required.">>,
                                <<"Please fill both fields">> }
             /\ <<pc[s], run[s], calls[s]>> # <<pc'[s], run'[s], calls'[s]>>
                  => /\ resources' = resources
                     /\ idp' = idp
                     /\ blobs' = blobs
                     /\ user' = user ]_vars

\* A post without description, its run finished: the error is on the page
\* and the one call made is the listing query.
C6_Witness ==
    \E s \in Sessions :
        /\ pc[s] = "done"
        /\ run[s].kind = "post"
        /\ run[s].form.title # <<>> /\ run[s].form.description = <<>>
        /\ ui[s][1] = <<"Title and description are required.">>
        /\ Len(calls[s]) = 1 /\ calls[s][1].op = "query"

\* C8: the step that runs the moderation pipeline leaves the collection of
\* listings, every field of every listing included, as it was.
C8_PipelineLeavesStoreAlone ==
    [][ \A s \in Sessions :
          (pc[s] = "pipeline" /\ pc'[s] # "pipeline") =>
              resources' = resources ]_vars

\* A rejected submission whose listing is in the store, still available.
C8_Witness ==
    \E s \in Sessions :
        /\ run[s].outcome.state = "rejected"
        /\ run[s].docid \in DOMAIN resources
        /\ resources[run[s].docid].status = "available"

\* C9: a listing is added only by a session with a user, and is owned by
\* that user; a session gets a user only from a login whose lookup found
\* the account, and then that account's email; a session without a user
\* adds nothing.
C9_ListingsOwnedBySessionUser ==
    [][ /\ Len(resources') > Len(resources) =>
              /\ Len(resources') = Len(resources) + 1
              /\ \E s \in Sessions :
                    /\ pc[s] # pc'[s]
                    /\ user[s].in
                    /\ user'[s] = user[s]
                    /\ resources'[Len(resources')].owner = user[s].email
        /\ \A s \in Sessions :
              /\ (user'[s] # user[s] /\ user'[s].in) =>
                    /\ run'[s].kind = "auth"
                    /\ run'[s].form.choice = "Login"
                    /\ run'[s].form.email \in idp
                    /\ user'[s].email = run'[s].form.email
                    /\ calls'[s][1].op = "get_user_by_email"
                    /\ calls'[s][1].ok
              /\ (~user[s].in /\ pc[s] # pc'[s]) =>
                    Len(resources') = Len(resources)
        /\ \A i \in DOMAIN resources' : resources'[i].owner \in idp' ]_vars

\* Two listings of two owners, the session logged out again.
C9_Witness ==
    /\ Len(resources) = 2
    /\ resources[1].owner # resources[2].owner
    /\ \E s \in Sessions : ~user[s].in /\ run[s].kind = "logout"

\* C10 as stated: whenever a request update is applied, the listing's
\* stored status is "available" at that moment.
C10_UpdateOnlyWhenAvailable ==
    [][ \A s \in Sessions :
          (pc[s] = "update" /\ pc'[s] # "update") =>
              resources[run[s].click].status = "available" ]_vars

\* C10 amended: a run goes on to update a listing only if its own query,
\* at the time of the query, found that listing available; the update then
\* sets that listing, and no other, to "requested", whatever the status has
\* become in between.
C10_UpdateOnlyAfterSeenAvailable ==
    [][ \A s \in Sessions :
          /\ (pc[s] = "search" /\ pc'[s] = "update") =>
                /\ run[s].click \in DOMAIN resources
                /\ resources[run[s].click].status = "available"
                /\ resources' = resources
          /\ (pc[s] = "update" /\ pc'[s] # "update") =>
                /\ resources'[run[s].click].status = "requested"
                /\ \A i \in DOMAIN resources :
                      i # run[s].click => resources'[i] = resources[i]
                /\ DOMAIN resources' = DOMAIN resources
          /\ pc'[s] = "update" => pc[s] \in {"search", "update"} ]_vars

\* Two runs are both about to update the same listing.
C10_Witness ==
    \E s, t \in Sessions :
        /\ s # t
        /\ pc[s] = "update" /\ pc[t] = "update"
        /\ run[s].click = run[t].click

====
